---- MODULE Spec2Model ----
(***************************************************************************)
(* Model of win32_timestamps (src/src/main.rs): the dump and apply         *)
(* commands, the Win32 handle wrappers they use, and the versioned text    *)
(* format that connects them.                                              *)
(*                                                                         *)
(* Text is modelled as sequences of characters (one-character strings).    *)
(* An i64 is modelled as sign + magnitude, the magnitude being four 16-bit *)
(* limbs (least significant first), so that the full 64-bit range can be   *)
(* formatted and parsed digit by digit.                                    *)
(***************************************************************************)
EXTENDS Integers, Sequences, FiniteSets, TLC

\* ------------------------------------------------------------------------
\* Characters
\* ------------------------------------------------------------------------
TAB == "\t"
LF == "\n"
CR == "\r"
\* A UTF-16 code unit that is an unpaired surrogate (valid in an NTFS name,
\* not valid Unicode), and U+FFFD REPLACEMENT CHARACTER.
Surrogate == "<D800>"
Replacement == "<FFFD>"

Digits == <<"0", "1", "2", "3", "4", "5", "6", "7", "8", "9">>

IsDigit(c) == \E i \in 1..10 : Digits[i] = c

DigitVal(c) == (CHOOSE i \in 1..10 : Digits[i] = c) - 1

\* ------------------------------------------------------------------------
\* i64 / i32 values
\* ------------------------------------------------------------------------
LimbBase == 2^16
HalfLimb == 2^15

ZeroMag == <<0, 0, 0, 0>>

\* The i64 with the (small) value n.
I64Of(n) ==
    LET a == IF n < 0 THEN 0 - n ELSE n
    IN  [neg |-> n < 0, mag |-> <<a % LimbBase, a \div LimbBase, 0, 0>>]

I64Max == [neg |-> FALSE, mag |-> <<LimbBase - 1, LimbBase - 1, LimbBase - 1, HalfLimb - 1>>]
I64Min == [neg |-> TRUE, mag |-> <<0, 0, 0, HalfLimb>>]

\* Is sign/magnitude a value of the signed 64-bit (resp. 32-bit) range?
InI64(neg, mag) ==
    \/ mag[4] < HalfLimb
    \/ neg /\ mag = <<0, 0, 0, HalfLimb>>

InI32(neg, mag) ==
    /\ mag[3] = 0
    /\ mag[4] = 0
    /\ \/ mag[2] < HalfLimb
       \/ neg /\ mag = <<0, HalfLimb, 0, 0>>

\* mag * 10 + d, with the carry out of the top limb.
MulAdd10(mag, d) ==
    LET t1 == mag[1] * 10 + d
        t2 == mag[2] * 10 + (t1 \div LimbBase)
        t3 == mag[3] * 10 + (t2 \div LimbBase)
        t4 == mag[4] * 10 + (t3 \div LimbBase)
    IN  [mag |-> <<t1 % LimbBase, t2 % LimbBase, t3 % LimbBase, t4 % LimbBase>>,
         carry |-> t4 \div LimbBase]

\* mag divided by 10: quotient and remainder.
DivMod10(mag) ==
    LET t4 == mag[4]
        t3 == (t4 % 10) * LimbBase + mag[3]
        t2 == (t3 % 10) * LimbBase + mag[2]
        t1 == (t2 % 10) * LimbBase + mag[1]
    IN  [quot |-> <<t1 \div 10, t2 \div 10, t3 \div 10, t4 \div 10>>,
         rem |-> t1 % 10]

\* The decimal digits of a magnitude, most significant first (the division
\* is done once per digit: qr is bound to its value).
RECURSIVE MagDigits(_)
MagDigits(mag) ==
    IF mag = ZeroMag THEN <<>>
    ELSE CHOOSE ds \in {Append(MagDigits(qr.quot), Digits[qr.rem + 1]) :
                            qr \in {DivMod10(mag)}} : TRUE

\* Display of an integer: optional "-", then the decimal digits.
FormatInt(v) ==
    IF v.mag = ZeroMag THEN <<"0">>
    ELSE (IF v.neg THEN <<"-">> ELSE <<>>) \o MagDigits(v.mag)

\* Accumulate decimal digits; bad is set as soon as a character is no digit
\* or the value leaves the range of the target type (checked add/sub/mul).
\* The product is computed once per digit: ma is bound to its value.
RECURSIVE AccDigits(_, _, _, _)
AccDigits(ds, neg, wide, acc) ==
    IF ds = <<>> \/ acc.bad THEN acc
    ELSE LET c == Head(ds)
         IN  IF ~IsDigit(c) THEN [acc EXCEPT !.bad = TRUE]
             ELSE CHOOSE r \in
                    {AccDigits(Tail(ds), neg, wide,
                               [mag |-> ma.mag,
                                bad |-> ~(/\ ma.carry = 0
                                          /\ IF wide THEN InI64(neg, ma.mag)
                                             ELSE InI32(neg, ma.mag))]) :
                        ma \in {MulAdd10(acc.mag, DigitVal(c))}} : TRUE

NoInt == [ok |-> FALSE, val |-> I64Of(0)]

\* str::parse for a signed integer type: optional sign, one or more
\* decimal digits, nothing else; the value must fit the type.
ParseSigned(s, wide) ==
    IF s = <<>> THEN NoInt
    ELSE LET signed == Head(s) \in {"-", "+"}
             neg == Head(s) = "-"
             ds == IF signed THEN Tail(s) ELSE s
         IN  IF ds = <<>> THEN NoInt
             ELSE LET acc == AccDigits(ds, neg, wide, [mag |-> ZeroMag, bad |-> FALSE])
                  IN  IF acc.bad THEN NoInt
                      ELSE [ok |-> TRUE,
                            val |-> [neg |-> neg /\ acc.mag # ZeroMag, mag |-> acc.mag]]

ParseI64(s) == ParseSigned(s, TRUE)

ParseI32(s) == ParseSigned(s, FALSE)

\* ------------------------------------------------------------------------
\* Text helpers
\* ------------------------------------------------------------------------
IndexOf(s, c) ==
    IF \E i \in 1..Len(s) : s[i] = c
    THEN CHOOSE i \in 1..Len(s) : s[i] = c /\ \A j \in 1..(i - 1) : s[j] # c
    ELSE 0

\* str::split_once: the text before and after the first delimiter.
SplitOnce(s, c) ==
    LET i == IndexOf(s, c)
    IN  IF i = 0 THEN [ok |-> FALSE, before |-> <<>>, after |-> <<>>]
        ELSE [ok |-> TRUE, before |-> SubSeq(s, 1, i - 1), after |-> SubSeq(s, i + 1, Len(s))]

\* BufRead::lines, one step: the next line without its terminator ("\n",
\* or "\r\n"), and the rest of the stream; none at end of stream.
ReadLine(s) ==
    IF s = <<>> THEN [some |-> FALSE, line |-> <<>>, rest |-> <<>>]
    ELSE LET i == IndexOf(s, LF)
         IN  IF i = 0 THEN [some |-> TRUE, line |-> s, rest |-> <<>>]
             ELSE LET raw == SubSeq(s, 1, i - 1)
                      line == IF raw # <<>> /\ raw[Len(raw)] = CR
                              THEN SubSeq(raw, 1, Len(raw) - 1) ELSE raw
                  IN  [some |-> TRUE, line |-> line, rest |-> SubSeq(s, i + 1, Len(s))]

\* ------------------------------------------------------------------------
\* Data structures
\* ------------------------------------------------------------------------
HEADER_PREFIX == <<"V", "e", "r", "s", "i", "o", "n", " ">>

V0version == I64Of(0)

V0header ==
    <<"C", "r", "e", "a", "t", "e", "d", TAB, "M", "o", "d", "i", "f", "i", "e", "d", TAB, "C", "h", "a", "n", "g", "e", "d", TAB, "A", "c", "c", "e", "s", "s", "e", "d">>

column_header == <<"P", "a", "t", "h", TAB>> \o V0header

\* Display in the order of the struct literal of V0Timestamps::get.
V0DisplayStructOrder(ts) ==
    FormatInt(ts.created) \o <<TAB>> \o FormatInt(ts.modified) \o <<TAB>>
        \o FormatInt(ts.accessed) \o <<TAB>> \o FormatInt(ts.changed)

\* #[display("{created}\t{modified}\t{changed}\t{accessed}")]
V0Display(ts) ==
    FormatInt(ts.created) \o <<TAB>> \o FormatInt(ts.modified) \o <<TAB>>
        \o FormatInt(ts.changed) \o <<TAB>> \o FormatInt(ts.accessed)

NoTimestamps ==
    [some |-> FALSE,
     ts |-> [created |-> I64Of(0), modified |-> I64Of(0),
             changed |-> I64Of(0), accessed |-> I64Of(0)]]

\* A FromStr whose fourth field ends at the next tab, if there is one: what
\* follows four fields is ignored.
V0FromStrIgnoresRest(s) ==
    LET s1 == SplitOnce(s, TAB)
        s2 == SplitOnce(s1.after, TAB)
        s3 == SplitOnce(s2.after, TAB)
        s4 == SplitOnce(s3.after, TAB)
        created == ParseI64(s1.before)
        modified == ParseI64(s2.before)
        changed == ParseI64(s3.before)
        accessed == ParseI64(IF s4.ok THEN s4.before ELSE s3.after)
    IN  IF s1.ok /\ s2.ok /\ s3.ok
           /\ created.ok /\ modified.ok /\ changed.ok /\ accessed.ok
        THEN [some |-> TRUE,
              ts |-> [created |-> created.val, modified |-> modified.val,
                      changed |-> changed.val, accessed |-> accessed.val]]
        ELSE NoTimestamps

\* #[derive(FromStr)] with the same format: three fields, each ending at the
\* next tab, and a fourth that takes the rest of the text; every field must
\* parse as an i64.
V0FromStr(s) ==
    LET s1 == SplitOnce(s, TAB)
        s2 == SplitOnce(s1.after, TAB)
        s3 == SplitOnce(s2.after, TAB)
        created == ParseI64(s1.before)
        modified == ParseI64(s2.before)
        changed == ParseI64(s3.before)
        accessed == ParseI64(s3.after)
    IN  IF s1.ok /\ s2.ok /\ s3.ok
           /\ created.ok /\ modified.ok /\ changed.ok /\ accessed.ok
        THEN [some |-> TRUE,
              ts |-> [created |-> created.val, modified |-> modified.val,
                      changed |-> changed.val, accessed |-> accessed.val]]
        ELSE NoTimestamps

\* V0Timestamps::get with the last access time and the change time taken in
\* the order of the row instead of the order of FILE_BASIC_INFO.
V0getRowOrder(fi) ==
    [created |-> fi.CreationTime,
     modified |-> fi.LastWriteTime,
     changed |-> fi.LastAccessTime,
     accessed |-> fi.ChangeTime]

\* V0Timestamps::get, the mapping of a queried FILE_BASIC_INFO.
V0get(fi) ==
    [created |-> fi.CreationTime,
     modified |-> fi.LastWriteTime,
     accessed |-> fi.LastAccessTime,
     changed |-> fi.ChangeTime]

\* V0Timestamps::set with FILE_ATTRIBUTE_NORMAL in place of 0.
V0setNormal(ts) ==
    [CreationTime |-> ts.created,
     LastAccessTime |-> ts.accessed,
     LastWriteTime |-> ts.modified,
     ChangeTime |-> ts.changed,
     FileAttributes |-> 128]

\* V0Timestamps::set, the FILE_BASIC_INFO handed to set_file_basic_info.
V0set(ts) ==
    [CreationTime |-> ts.created,
     LastAccessTime |-> ts.accessed,
     LastWriteTime |-> ts.modified,
     ChangeTime |-> ts.changed,
     FileAttributes |-> 0]

\* Path::display: lossy, a code unit that is not valid Unicode is shown as
\* U+FFFD.
PathDisplay(p) ==
    [i \in 1..Len(p) |-> IF p[i] = Surrogate THEN Replacement ELSE p[i]]

\* Path::new(&str) followed by encode_wide: text is valid Unicode, every
\* character is kept.
encode_wide(text) == [i \in 1..Len(text) |-> text[i]]

\* ------------------------------------------------------------------------
\* Bounds and the environment (the file system, the traversal, stdin)
\* ------------------------------------------------------------------------
\* Entries below the root that one traversal yields (paths and errors).
MaxChildren == 2
\* Data rows of a hand-written apply input.
MaxRows == 2
\* Win32 calls that fail in one scenario.
MaxFaults == 1

Root == <<"r">>

Child(name) == Root \o <<"\\">> \o name

ChildPaths == {Child(<<Surrogate>>), Child(<<Replacement>>)}

FilePaths == {Root} \cup ChildPaths

\* FILETIME ticks of a date in 2022.
Ticks2022 == [neg |-> FALSE, mag |-> <<0, 32276, 61542, 472>>]

\* The last-access time the file system records when it notes an access.
AccessTick == [neg |-> FALSE, mag |-> <<1, 32276, 61542, 472>>]

RootInfo ==
    [CreationTime |-> I64Of(1), LastAccessTime |-> I64Of(4),
     LastWriteTime |-> I64Of(2), ChangeTime |-> I64Of(3),
     FileAttributes |-> 16]

\* A read-only archive file, and a hidden file on a volume that keeps no
\* change time.
FileInfos ==
    {[CreationTime |-> I64Of(11), LastAccessTime |-> I64Of(14),
      LastWriteTime |-> I64Of(12), ChangeTime |-> I64Of(13),
      FileAttributes |-> 33],
     [CreationTime |-> Ticks2022, LastAccessTime |-> I64Of(24),
      LastWriteTime |-> I64Of(22), ChangeTime |-> I64Of(0),
      FileAttributes |-> 2]}

\* One item of the traversal: an entry with a path, or an error.
WalkError == [err |-> TRUE, path |-> <<>>]

WalkEntry(p) == [err |-> FALSE, path |-> p]

IsInjectiveOnPaths(w) ==
    \A i, j \in 1..Len(w) : (i # j /\ ~w[i].err /\ ~w[j].err) => w[i].path # w[j].path

\* WalkDir::new(root): an error if the root cannot be read; otherwise the
\* root itself first, then the entries below it in an order of the
\* traversal's choosing, any of which may be an error instead.
WalkDir ==
    LET items == {WalkError} \cup {WalkEntry(p) : p \in ChildPaths}
        below == UNION {[1..n -> items] : n \in 0..MaxChildren}
    IN  {<<WalkError>>}
        \cup {<<WalkEntry(Root)>> \o w : w \in {b \in below : IsInjectiveOnPaths(b)}}

RECURSIVE JoinLines(_)
JoinLines(ls) ==
    IF ls = <<>> THEN <<>> ELSE Head(ls) \o <<LF>> \o JoinLines(Tail(ls))

RowTimes ==
    [created |-> I64Of(5), modified |-> I64Of(6),
     changed |-> I64Of(7), accessed |-> I64Of(8)]

\* Zero and -1 are the "leave unchanged" values of FILE_BASIC_INFO.
RowTimesKeep ==
    [created |-> I64Of(0), modified |-> I64Of(-1),
     changed |-> I64Of(9), accessed |-> I64Of(0)]

GoodRows ==
    {Child(<<Replacement>>) \o <<TAB>> \o V0Display(RowTimes),
     Root \o <<TAB>> \o V0Display(RowTimesKeep),
     <<"x">> \o <<TAB>> \o V0Display(RowTimes)}

BadRows ==
    {<<"r">>,
     <<"r", TAB, "5", TAB, "6", TAB, "x", TAB, "8">>}

BadHeader == <<"P", "a", "t", "h", TAB, "C", "r", "e", "a", "t", "e", "d">>

Lines(opts, n) == UNION {[1..k -> opts] : k \in 0..n}

\* The hand-written inputs of apply.
ApplyInputs ==
    LET some == {Child(<<Replacement>>) \o <<TAB>> \o V0Display(RowTimes), <<"r">>}
        v0 == HEADER_PREFIX \o <<"0", LF>>
    IN  \* well-formed version and header, any rows
        {v0 \o column_header \o <<LF>> \o JoinLines(rs) :
            rs \in Lines(GoodRows \cup BadRows, MaxRows)}
        \cup {v0 \o column_header \o <<CR, LF>> \o JoinLines(rs) : rs \in Lines(some, 1)}
        \* other versions
        \cup {HEADER_PREFIX \o v \o <<LF>> \o h \o <<LF>> \o JoinLines(rs) :
                v \in {<<"7">>, <<"-", "1">>, <<"0", "1">>},
                h \in {column_header, BadHeader},
                rs \in Lines(some, 1)}
        \* version text that is not an i32
        \cup {HEADER_PREFIX \o v \o <<LF>> \o column_header \o <<LF>> \o JoinLines(rs) :
                v \in {<<>>, <<"x">>, <<"2", "1", "4", "7", "4", "8", "3", "6", "4", "8">>},
                rs \in Lines(some, 1)}
        \* malformed or missing header
        \cup {v0 \o h \o JoinLines(rs) :
                h \in {BadHeader \o <<LF>>, column_header \o <<" ", LF>>, <<LF>>, <<>>},
                rs \in Lines(some, MaxRows)}
        \* the header as the last line, without a line terminator
        \cup {v0 \o column_header}
        \* malformed or truncated prefix
        \cup {<<>>, <<"V", "e", "r">>, HEADER_PREFIX, HEADER_PREFIX \o <<"0">>,
              HEADER_PREFIX \o <<"7">>,
              <<"v", "e", "r", "s", "i", "o", "n", " ", "0", LF>> \o column_header
                  \o <<LF>> \o JoinLines(<<Child(<<Replacement>>) \o <<TAB>> \o V0Display(RowTimes)>>)}

\* ------------------------------------------------------------------------
\* The apply input, read as a whole
\* ------------------------------------------------------------------------
RECURSIVE AllLines(_)
AllLines(text) ==
    LET l == ReadLine(text)
    IN  IF l.some THEN <<l.line>> \o AllLines(l.rest) ELSE <<>>

PrefixText == <<"V", "e", "r", "s", "i", "o", "n", " ">>

HeaderText ==
    <<"P", "a", "t", "h", TAB, "C", "r", "e", "a", "t", "e", "d", TAB,
      "M", "o", "d", "i", "f", "i", "e", "d", TAB, "C", "h", "a", "n", "g", "e", "d", TAB,
      "A", "c", "c", "e", "s", "s", "e", "d">>

HasPrefix(text) ==
    Len(text) >= Len(PrefixText) /\ SubSeq(text, 1, Len(PrefixText)) = PrefixText

RowOk(line) == SplitOnce(line, TAB).ok /\ V0FromStr(SplitOnce(line, TAB).after).some

RowCall(line) ==
    [path |-> SplitOnce(line, TAB).before, ts |-> V0FromStr(SplitOnce(line, TAB).after).ts]

\* What an input holds: whether it starts with the prefix; its lines after
\* the prefix (the version, the header, the data rows); the version as an
\* i32; and for each data row whether it parses, and to which set call.
ReadInput(text) ==
    LET lines == IF HasPrefix(text)
                 THEN AllLines(SubSeq(text, Len(PrefixText) + 1, Len(text)))
                 ELSE <<>>
        rows == SubSeq(lines, 3, Len(lines))
    IN  [prefix |-> HasPrefix(text),
         lines |-> lines,
         version |-> IF lines = <<>> THEN NoInt ELSE ParseI32(lines[1]),
         rows |-> [i \in DOMAIN rows |-> [ok |-> RowOk(rows[i]), call |-> RowCall(rows[i])]]]

\* ------------------------------------------------------------------------
\* State
\* ------------------------------------------------------------------------
VARIABLES
    files,      \* the file system: path -> FILE_BASIC_INFO of the file
    pc,         \* position of the running process
    cmd,        \* the command of the running process: "dump" or "apply"
    second,     \* is this the process that follows a dump?
    walk,       \* the items the traversal has yet to yield
    trav,       \* the traversal of the dump, as started
    stdin,      \* the unread rest of standard input
    input,      \* standard input, as given
    content,     \* what standard input holds, read as a whole
    stdout,     \* text written to standard output
    stderr,     \* messages written to standard error
    status,     \* "running", "success" (main returned) or "aborted" (panic)
    handle,     \* the open HANDLE, if any
    frame,      \* locals of the running get_file_basic_info / set_file_basic_info
    faults,     \* Win32 calls that have failed
    snap,       \* the file system when the last dump started
    base,       \* the file system when this process started
    prior,      \* the calls of V0Timestamps::get of the dump before this process
    gets,       \* the calls of V0Timestamps::get of this process, with their results
    setCalls,   \* the calls of V0Timestamps::set of this process, in order
    oscalls     \* the Win32 calls of this process, in order

vars ==
    <<files, pc, cmd, second, walk, trav, stdin, input, content, stdout, stderr, status,
      handle, frame, faults, snap, base, prior, gets, setCalls, oscalls>>

NoHandle ==
    [open |-> FALSE, path |-> <<>>, mode |-> "none", keepAccess |-> FALSE, access |-> {}]

\* win32_open_file, the access rights asked of CreateFileW.
Access(mode) ==
    IF mode = "Read" THEN {"FILE_READ_ATTRIBUTES", "FILE_WRITE_ATTRIBUTES"}
    ELSE {"FILE_WRITE_ATTRIBUTES"}

NoInfo ==
    [CreationTime |-> I64Of(0), LastAccessTime |-> I64Of(0),
     LastWriteTime |-> I64Of(0), ChangeTime |-> I64Of(0), FileAttributes |-> 0]

NoFrame ==
    [path |-> <<>>, mode |-> "none", fi |-> NoInfo, suppressed |-> FALSE,
     valid |-> FALSE, ret |-> NoInfo]

Init ==
    /\ files \in {f \in [FilePaths -> FileInfos \cup {RootInfo}] :
                    /\ f[Root] = RootInfo
                    /\ \A p \in ChildPaths : f[p] \in FileInfos
                    /\ \A p, q \in ChildPaths : p # q => f[p] # f[q]}
    /\ pc = "main"
    /\ cmd = "none"
    /\ second = FALSE
    /\ walk = <<>>
    /\ trav = <<>>
    /\ stdin = <<>>
    /\ input = <<>>
    /\ content = ReadInput(<<>>)
    /\ stdout = <<>>
    /\ stderr = <<>>
    /\ status = "running"
    /\ handle = NoHandle
    /\ frame = NoFrame
    /\ faults = 0
    /\ snap = files
    /\ base = files
    /\ prior = <<>>
    /\ gets = <<>>
    /\ setCalls = <<>>
    /\ oscalls = <<>>

\* ------------------------------------------------------------------------
\* The Win32 calls
\* ------------------------------------------------------------------------
\* A time of 0 or -1 (or -2) in a FILE_BASIC_INFO that is being set leaves
\* the file's time as it is.
KeepsTime(v) == v \in {I64Of(0), I64Of(-1), I64Of(-2)}

\* SetFileInformationByHandle(FileBasicInfo) on a file whose info is old.
OsSetBasicInfo(old, fi) ==
    [CreationTime |->
        IF KeepsTime(fi.CreationTime) THEN old.CreationTime ELSE fi.CreationTime,
     LastAccessTime |->
        IF KeepsTime(fi.LastAccessTime) THEN old.LastAccessTime ELSE fi.LastAccessTime,
     LastWriteTime |->
        IF KeepsTime(fi.LastWriteTime) THEN old.LastWriteTime ELSE fi.LastWriteTime,
     ChangeTime |->
        IF KeepsTime(fi.ChangeTime) THEN old.ChangeTime ELSE fi.ChangeTime,
     FileAttributes |->
        IF fi.FileAttributes = 0 THEN old.FileAttributes ELSE fi.FileAttributes]

\* A Win32 call fails only while the scenario's budget of failures lasts.
MayFail(ok) == ok \/ faults < MaxFaults

Failed(ok) == IF ok THEN faults ELSE faults + 1

Log(msg, path) == Append(stderr, [msg |-> msg, path |-> path])

OsCall(op, path, ok) ==
    Append(oscalls, [op |-> op, mode |-> frame.mode, path |-> path, ok |-> ok])

Some(ts) == [some |-> TRUE, ts |-> ts]

\* The continuation of the caller once get or set has returned.
Return == IF frame.mode = "Read" THEN "walk" ELSE "rows"

\* get_file_basic_info without its early return: after a failed open the
\* zeroed FILE_BASIC_INFO is returned as Some, and dump prints a row for it.
OpenNoEarlyReturn ==
    /\ pc = "open"
    /\ \E ok \in BOOLEAN :
        /\ MayFail(ok)
        /\ LET opened == ok /\ frame.path \in DOMAIN files
           IN  /\ faults' = IF frame.path \in DOMAIN files THEN Failed(ok) ELSE faults
               /\ oscalls' = OsCall("CreateFileW", frame.path, opened)
               /\ IF opened
                  THEN /\ handle' = [open |-> TRUE, path |-> frame.path,
                                     mode |-> frame.mode, keepAccess |-> FALSE,
                                     access |-> Access(frame.mode)]
                       /\ pc' = "suppress"
                       /\ UNCHANGED <<stdout, stderr, gets>>
                  ELSE /\ stderr' = Log("error opening", PathDisplay(frame.path))
                       /\ gets' = IF frame.mode = "Read"
                                  THEN Append(gets, [path |-> frame.path,
                                                     res |-> Some(V0get(frame.ret)),
                                                     opened |-> FALSE, suppressed |-> FALSE])
                                  ELSE gets
                       /\ stdout' = IF frame.mode = "Read"
                                    THEN stdout \o PathDisplay(frame.path) \o <<TAB>>
                                            \o V0Display(V0get(frame.ret)) \o <<LF>>
                                    ELSE stdout
                       /\ pc' = Return
                       /\ UNCHANGED handle
    /\ UNCHANGED <<files, cmd, second, walk, trav, stdin, input, content, status,
                   frame, snap, base, prior, setCalls>>

\* win32_open_file that calls SetFileTime on the handles of Read mode only.
OpenSuppressesReadOnly ==
    /\ pc = "open"
    /\ \E ok \in BOOLEAN :
        /\ MayFail(ok)
        /\ LET opened == ok /\ frame.path \in DOMAIN files
           IN  /\ faults' = IF frame.path \in DOMAIN files THEN Failed(ok) ELSE faults
               /\ oscalls' = OsCall("CreateFileW", frame.path, opened)
               /\ IF opened
                  THEN /\ handle' = [open |-> TRUE, path |-> frame.path,
                                     mode |-> frame.mode, keepAccess |-> FALSE,
                                     access |-> Access(frame.mode)]
                       /\ pc' = IF frame.mode = "Read" THEN "suppress" ELSE "setinfo"
                       /\ UNCHANGED <<stderr, gets>>
                  ELSE /\ stderr' = Log("error opening", PathDisplay(frame.path))
                       /\ gets' = IF frame.mode = "Read"
                                  THEN Append(gets, [path |-> frame.path, res |-> NoTimestamps,
                                                     opened |-> FALSE, suppressed |-> FALSE])
                                  ELSE gets
                       /\ pc' = Return
                       /\ UNCHANGED handle
    /\ UNCHANGED <<files, cmd, second, walk, trav, stdin, input, content, stdout, status,
                   frame, snap, base, prior, setCalls>>

\* win32_open_file, CreateFileW: a handle, or INVALID_HANDLE_VALUE with the
\* error logged; the caller then returns at once (get: None).
Open ==
    /\ pc = "open"
    /\ \E ok \in BOOLEAN :
        /\ MayFail(ok)
        /\ LET opened == ok /\ frame.path \in DOMAIN files
           IN  /\ faults' = IF frame.path \in DOMAIN files THEN Failed(ok) ELSE faults
               /\ oscalls' = OsCall("CreateFileW", frame.path, opened)
               /\ IF opened
                  THEN /\ handle' = [open |-> TRUE, path |-> frame.path,
                                     mode |-> frame.mode, keepAccess |-> FALSE,
                                     access |-> Access(frame.mode)]
                       /\ pc' = "suppress"
                       /\ UNCHANGED <<stderr, gets>>
                  ELSE /\ stderr' = Log("error opening", PathDisplay(frame.path))
                       /\ gets' = IF frame.mode = "Read"
                                  THEN Append(gets, [path |-> frame.path, res |-> NoTimestamps,
                                                     opened |-> FALSE, suppressed |-> FALSE])
                                  ELSE gets
                       /\ pc' = Return
                       /\ UNCHANGED handle
    /\ UNCHANGED <<files, cmd, second, walk, trav, stdin, input, content, stdout, status,
                   frame, snap, base, prior, setCalls>>

\* win32_open_file with the "leave unchanged" time handed to SetFileTime as
\* the last write time: the call succeeds and protects nothing.
SuppressLastWrite ==
    /\ pc = "suppress"
    /\ \E ok \in BOOLEAN :
        /\ MayFail(ok)
        /\ faults' = Failed(ok)
        /\ oscalls' = OsCall("SetFileTime", handle.path, ok)
        /\ handle' = [handle EXCEPT !.keepAccess = FALSE]
        /\ frame' = [frame EXCEPT !.suppressed = ok]
        /\ stderr' = IF ok THEN stderr
                     ELSE Log("error leaving access time unchanged", PathDisplay(frame.path))
    /\ pc' = IF frame.mode = "Read" THEN "query" ELSE "setinfo"
    /\ UNCHANGED <<files, cmd, second, walk, trav, stdin, input, content, stdout, status,
                   snap, base, prior, gets, setCalls>>

\* win32_open_file, SetFileTime with the "leave unchanged" last access time:
\* operations on the handle no longer touch the last access time.  A failure
\* is logged and the handle is used all the same.
Suppress ==
    /\ pc = "suppress"
    /\ \E ok \in BOOLEAN :
        /\ MayFail(ok)
        /\ faults' = Failed(ok)
        /\ oscalls' = OsCall("SetFileTime", handle.path, ok)
        /\ handle' = [handle EXCEPT !.keepAccess = ok]
        /\ frame' = [frame EXCEPT !.suppressed = ok]
        /\ stderr' = IF ok THEN stderr
                     ELSE Log("error leaving access time unchanged", PathDisplay(frame.path))
    /\ pc' = IF frame.mode = "Read" THEN "query" ELSE "setinfo"
    /\ UNCHANGED <<files, cmd, second, walk, trav, stdin, input, content, stdout, status,
                   snap, base, prior, gets, setCalls>>

\* get_file_basic_info that gives up, without a query, on a handle whose
\* SetFileTime failed.
QueryGivesUpUnsuppressed ==
    /\ pc = "query"
    /\ IF frame.suppressed
       THEN \E ok \in BOOLEAN :
                /\ MayFail(ok)
                /\ faults' = Failed(ok)
                /\ oscalls' = OsCall("GetFileInformationByHandleEx", handle.path, ok)
                /\ frame' = [frame EXCEPT !.valid = ok,
                                          !.ret = IF ok THEN files[handle.path] ELSE frame.ret]
       ELSE /\ frame' = [frame EXCEPT !.valid = FALSE]
            /\ UNCHANGED <<faults, oscalls>>
    /\ pc' = "close"
    /\ UNCHANGED <<files, cmd, second, walk, trav, stdin, input, content, stdout, stderr,
                   status, handle, snap, base, prior, gets, setCalls>>

\* get_file_basic_info, GetFileInformationByHandleEx.  On a handle whose
\* last access time is not protected the file system may note the access,
\* before or after it reads the times.
Query ==
    /\ pc = "query"
    /\ \E ok \in BOOLEAN, noted \in {"no", "before", "after"} :
        /\ MayFail(ok)
        /\ noted # "no" => (ok /\ ~handle.keepAccess)
        /\ faults' = Failed(ok)
        /\ oscalls' = OsCall("GetFileInformationByHandleEx", handle.path, ok)
        /\ LET touched == [files[handle.path] EXCEPT !.LastAccessTime = AccessTick]
           IN  /\ files' = IF noted = "no" THEN files
                           ELSE [files EXCEPT ![handle.path] = touched]
               /\ frame' = [frame EXCEPT
                              !.valid = ok,
                              !.ret = IF ~ok THEN frame.ret
                                      ELSE IF noted = "before" THEN touched
                                      ELSE files[handle.path]]
    /\ pc' = "close"
    /\ UNCHANGED <<cmd, second, walk, trav, stdin, input, content, stdout, stderr, status,
                   handle, snap, base, prior, gets, setCalls>>

\* set_file_basic_info that logs and returns on a failed
\* SetFileInformationByHandle before it reaches CloseHandle.
SetInfoReturnsOnFailure ==
    /\ pc = "setinfo"
    /\ \E ok \in BOOLEAN :
        /\ MayFail(ok)
        /\ faults' = Failed(ok)
        /\ oscalls' = OsCall("SetFileInformationByHandle", handle.path, ok)
        /\ files' = IF ok
                    THEN [files EXCEPT ![handle.path] = OsSetBasicInfo(@, frame.fi)]
                    ELSE files
        /\ frame' = [frame EXCEPT !.valid = ok]
        /\ stderr' = IF ok THEN stderr
                     ELSE Log("error applying timestamps", PathDisplay(frame.path))
        /\ pc' = IF ok THEN "close" ELSE "rows"
    /\ UNCHANGED <<cmd, second, walk, trav, stdin, input, content, stdout, status,
                   handle, snap, base, prior, gets, setCalls>>

\* set_file_basic_info, SetFileInformationByHandle.
SetInfo ==
    /\ pc = "setinfo"
    /\ \E ok \in BOOLEAN :
        /\ MayFail(ok)
        /\ faults' = Failed(ok)
        /\ oscalls' = OsCall("SetFileInformationByHandle", handle.path, ok)
        /\ files' = IF ok
                    THEN [files EXCEPT ![handle.path] = OsSetBasicInfo(@, frame.fi)]
                    ELSE files
        /\ frame' = [frame EXCEPT !.valid = ok]
    /\ pc' = "close"
    /\ UNCHANGED <<cmd, second, walk, trav, stdin, input, content, stdout, stderr, status,
                   handle, snap, base, prior, gets, setCalls>>

\* get_file_basic_info that returns None on a failed query before it reaches
\* CloseHandle.
GetCloseKeepsOnFailure ==
    /\ pc = "close"
    /\ frame.mode = "Read"
    /\ IF frame.valid
       THEN LET ts == V0get(frame.ret)
            IN  /\ oscalls' = OsCall("CloseHandle", handle.path, TRUE)
                /\ handle' = NoHandle
                /\ gets' = Append(gets, [path |-> frame.path, res |-> Some(ts),
                                         opened |-> TRUE, suppressed |-> frame.suppressed])
                /\ stdout' = stdout \o PathDisplay(frame.path) \o <<TAB>>
                                \o V0Display(ts) \o <<LF>>
                /\ UNCHANGED stderr
       ELSE /\ gets' = Append(gets, [path |-> frame.path, res |-> NoTimestamps,
                                     opened |-> TRUE, suppressed |-> frame.suppressed])
            /\ stderr' = Log("error retrieving timestamps", PathDisplay(frame.path))
            /\ UNCHANGED <<stdout, oscalls, handle>>
    /\ pc' = "walk"
    /\ UNCHANGED <<files, cmd, second, walk, trav, stdin, input, content, status, frame,
                   faults, snap, base, prior, setCalls>>

\* get_file_basic_info from CloseHandle on, V0Timestamps::get, and the match
\* of dump: a row is printed for Some, nothing for None.
GetClose ==
    /\ pc = "close"
    /\ frame.mode = "Read"
    /\ oscalls' = OsCall("CloseHandle", handle.path, TRUE)
    /\ handle' = NoHandle
    /\ IF frame.valid
       THEN LET ts == V0get(frame.ret)
            IN  /\ gets' = Append(gets, [path |-> frame.path, res |-> Some(ts),
                                         opened |-> TRUE, suppressed |-> frame.suppressed])
                /\ stdout' = stdout \o PathDisplay(frame.path) \o <<TAB>>
                                \o V0Display(ts) \o <<LF>>
                /\ UNCHANGED stderr
       ELSE /\ gets' = Append(gets, [path |-> frame.path, res |-> NoTimestamps,
                                     opened |-> TRUE, suppressed |-> frame.suppressed])
            /\ stderr' = Log("error retrieving timestamps", PathDisplay(frame.path))
            /\ UNCHANGED stdout
    /\ pc' = "walk"
    /\ UNCHANGED <<files, cmd, second, walk, trav, stdin, input, content, status, frame,
                   faults, snap, base, prior, setCalls>>

\* set_file_basic_info that panics when the timestamps could not be applied.
SetClosePanics ==
    /\ pc = "close"
    /\ frame.mode = "Write"
    /\ oscalls' = OsCall("CloseHandle", handle.path, TRUE)
    /\ handle' = NoHandle
    /\ stderr' = IF frame.valid THEN stderr
                 ELSE Log("error applying timestamps", PathDisplay(frame.path))
    /\ pc' = IF frame.valid THEN "rows" ELSE "exit"
    /\ status' = IF frame.valid THEN status ELSE "aborted"
    /\ UNCHANGED <<files, cmd, second, walk, trav, stdin, input, content, stdout,
                   frame, faults, snap, base, prior, gets, setCalls>>

\* set_file_basic_info from CloseHandle on.
SetClose ==
    /\ pc = "close"
    /\ frame.mode = "Write"
    /\ oscalls' = OsCall("CloseHandle", handle.path, TRUE)
    /\ handle' = NoHandle
    /\ stderr' = IF frame.valid THEN stderr
                 ELSE Log("error applying timestamps", PathDisplay(frame.path))
    /\ pc' = "rows"
    /\ UNCHANGED <<files, cmd, second, walk, trav, stdin, input, content, stdout, status,
                   frame, faults, snap, base, prior, gets, setCalls>>

\* ------------------------------------------------------------------------
\* dump
\* ------------------------------------------------------------------------
\* A panic: the process ends at once.
Abort ==
    /\ pc' = "exit"
    /\ status' = "aborted"

\* A process can be started at first and, once, after a dump has returned.
CanStart ==
    \/ pc = "main"
    \/ pc = "exit" /\ cmd = "dump" /\ ~second

\* main, CliCommand::Dump: the dump command is started, on the traversal w.
MainDump ==
    /\ CanStart
    /\ \E w \in (IF pc = "main" THEN WalkDir ELSE {trav}) :
        /\ walk' = w
        /\ trav' = w
    /\ cmd' = "dump"
    /\ second' = (pc = "exit")
    /\ pc' = "dump"
    /\ status' = "running"
    /\ stdin' = <<>>
    /\ input' = <<>>
    /\ content' = ReadInput(<<>>)
    /\ stdout' = <<>>
    /\ stderr' = <<>>
    /\ snap' = files
    /\ base' = files
    /\ prior' = gets
    /\ gets' = <<>>
    /\ setCalls' = <<>>
    /\ oscalls' = <<>>
    /\ UNCHANGED <<files, handle, frame, faults>>

\* dump that prints the version line only.
DumpHeaderVersionOnly ==
    /\ pc = "dump"
    /\ stdout' = stdout \o HEADER_PREFIX \o FormatInt(V0version) \o <<LF>>
    /\ pc' = "walk"
    /\ UNCHANGED <<files, cmd, second, walk, trav, stdin, input, content, stderr, status,
                   handle, frame, faults, snap, base, prior, gets, setCalls, oscalls>>

\* dump: the version line and the column header.
DumpHeader ==
    /\ pc = "dump"
    /\ stdout' = stdout \o HEADER_PREFIX \o FormatInt(V0version) \o <<LF>>
                    \o column_header \o <<LF>>
    /\ pc' = "walk"
    /\ UNCHANGED <<files, cmd, second, walk, trav, stdin, input, content, stderr, status,
                   handle, frame, faults, snap, base, prior, gets, setCalls, oscalls>>

\* dump: the traversal has ended, dump and main return.
DumpDone ==
    /\ pc = "walk"
    /\ walk = <<>>
    /\ pc' = "exit"
    /\ status' = "success"
    /\ UNCHANGED <<files, cmd, second, walk, trav, stdin, input, content, stdout, stderr,
                   handle, frame, faults, snap, base, prior, gets, setCalls, oscalls>>

\* dump that unwraps the item of the traversal: an error panics.
DumpWalkErrorPanics ==
    /\ pc = "walk"
    /\ walk # <<>>
    /\ Head(walk).err
    /\ stderr' = Log("walk error", <<>>)
    /\ walk' = Tail(walk)
    /\ Abort
    /\ UNCHANGED <<files, cmd, second, trav, stdin, input, content, stdout,
                   handle, frame, faults, snap, base, prior, gets, setCalls, oscalls>>

\* dump: the traversal yields an error, which is logged.
DumpWalkError ==
    /\ pc = "walk"
    /\ walk # <<>>
    /\ Head(walk).err
    /\ stderr' = Log("walk error", <<>>)
    /\ walk' = Tail(walk)
    /\ UNCHANGED <<files, pc, cmd, second, trav, stdin, input, content, stdout, status,
                   handle, frame, faults, snap, base, prior, gets, setCalls, oscalls>>

\* dump: the traversal yields an entry, V0Timestamps::get is called on it.
DumpEntry ==
    /\ pc = "walk"
    /\ walk # <<>>
    /\ ~Head(walk).err
    /\ frame' = [NoFrame EXCEPT !.path = Head(walk).path, !.mode = "Read"]
    /\ walk' = Tail(walk)
    /\ pc' = "open"
    /\ UNCHANGED <<files, cmd, second, trav, stdin, input, content, stdout, stderr, status,
                   handle, faults, snap, base, prior, gets, setCalls, oscalls>>

\* ------------------------------------------------------------------------
\* apply
\* ------------------------------------------------------------------------
\* main, CliCommand::Apply: the apply command is started; its standard input
\* is hand-written or, after a dump, the output of that dump.
MainApply ==
    /\ CanStart
    /\ \E text \in (IF pc = "main" THEN ApplyInputs ELSE {stdout}) :
        /\ stdin' = text
        /\ input' = text
        /\ content' = ReadInput(text)
    /\ cmd' = "apply"
    /\ second' = (pc = "exit")
    /\ pc' = "prefix"
    /\ status' = "running"
    /\ stdout' = <<>>
    /\ stderr' = <<>>
    /\ base' = files
    /\ prior' = gets
    /\ gets' = <<>>
    /\ setCalls' = <<>>
    /\ oscalls' = <<>>
    /\ UNCHANGED <<files, walk, trav, handle, frame, faults, snap>>

\* apply_any that reads the prefix without the assertion on it.
ApplyAnyPrefixUnchecked ==
    /\ pc = "prefix"
    /\ LET n == Len(HEADER_PREFIX)
       IN  IF Len(stdin) < n
           THEN Abort /\ UNCHANGED stdin
           ELSE /\ stdin' = SubSeq(stdin, n + 1, Len(stdin))
                /\ pc' = "version"
                /\ UNCHANGED status
    /\ UNCHANGED <<files, cmd, second, walk, trav, input, content, stdout, stderr, handle,
                   frame, faults, snap, base, prior, gets, setCalls, oscalls>>

\* apply_any: read_exact of the prefix, and the assertion on it.
ApplyAnyPrefix ==
    /\ pc = "prefix"
    /\ LET n == Len(HEADER_PREFIX)
       IN  IF Len(stdin) < n
           THEN Abort /\ UNCHANGED stdin
           ELSE IF SubSeq(stdin, 1, n) # HEADER_PREFIX
           THEN Abort /\ stdin' = SubSeq(stdin, n + 1, Len(stdin))
           ELSE /\ stdin' = SubSeq(stdin, n + 1, Len(stdin))
                /\ pc' = "version"
                /\ UNCHANGED status
    /\ UNCHANGED <<files, cmd, second, walk, trav, input, content, stdout, stderr, handle,
                   frame, faults, snap, base, prior, gets, setCalls, oscalls>>

\* apply_any without the match on the version: every version is applied as
\* version 0.
ApplyAnyVersionUnmatched ==
    /\ pc = "version"
    /\ LET l == ReadLine(stdin)
           version == ParseI32(l.line)
       IN  /\ stdin' = l.rest
           /\ IF ~l.some \/ ~version.ok
              THEN Abort
              ELSE pc' = "header" /\ UNCHANGED status
    /\ UNCHANGED <<files, cmd, second, walk, trav, input, content, stdout, stderr, handle, frame,
                   faults, snap, base, prior, gets, setCalls, oscalls>>

\* apply_any that takes a version it cannot parse for an unknown version.
ApplyAnyVersionLenient ==
    /\ pc = "version"
    /\ LET l == ReadLine(stdin)
           version == ParseI32(l.line)
       IN  /\ stdin' = l.rest
           /\ IF ~l.some
              THEN Abort /\ UNCHANGED stderr
              ELSE IF version.ok /\ version.val = V0version
              THEN pc' = "header" /\ UNCHANGED <<status, stderr>>
              ELSE /\ stderr' = Log("unknown version", l.line)
                   /\ pc' = "exit"
                   /\ status' = "success"
    /\ UNCHANGED <<files, cmd, second, walk, trav, input, content, stdout, handle, frame,
                   faults, snap, base, prior, gets, setCalls, oscalls>>

\* apply_any: the rest of the first line is parsed as an i32; version 0 goes
\* on to apply, any other version is logged and apply_any returns.
ApplyAnyVersion ==
    /\ pc = "version"
    /\ LET l == ReadLine(stdin)
           version == ParseI32(l.line)
       IN  /\ stdin' = l.rest
           /\ IF ~l.some \/ ~version.ok
              THEN Abort /\ UNCHANGED stderr
              ELSE IF version.val = V0version
              THEN pc' = "header" /\ UNCHANGED <<status, stderr>>
              ELSE /\ stderr' = Log("unknown version", FormatInt(version.val))
                   /\ pc' = "exit"
                   /\ status' = "success"
    /\ UNCHANGED <<files, cmd, second, walk, trav, input, content, stdout, handle, frame,
                   faults, snap, base, prior, gets, setCalls, oscalls>>

\* apply that reads the header line without the assertion on it.
ApplyHeaderUnchecked ==
    /\ pc = "header"
    /\ LET l == ReadLine(stdin)
       IN  /\ stdin' = l.rest
           /\ IF l.some
              THEN pc' = "rows" /\ UNCHANGED status
              ELSE Abort
    /\ UNCHANGED <<files, cmd, second, walk, trav, input, content, stdout, stderr, handle,
                   frame, faults, snap, base, prior, gets, setCalls, oscalls>>

\* apply: the next line must be the column header.
ApplyHeader ==
    /\ pc = "header"
    /\ LET l == ReadLine(stdin)
       IN  /\ stdin' = l.rest
           /\ IF l.some /\ l.line = column_header
              THEN pc' = "rows" /\ UNCHANGED status
              ELSE Abort
    /\ UNCHANGED <<files, cmd, second, walk, trav, input, content, stdout, stderr, handle,
                   frame, faults, snap, base, prior, gets, setCalls, oscalls>>

\* apply that panics at the end of an input in which it found no data row.
ApplyDoneNeedsRow ==
    /\ pc = "rows"
    /\ ~ReadLine(stdin).some
    /\ pc' = "exit"
    /\ status' = IF setCalls = <<>> THEN "aborted" ELSE "success"
    /\ UNCHANGED <<files, cmd, second, walk, trav, stdin, input, content, stdout, stderr,
                   handle, frame, faults, snap, base, prior, gets, setCalls, oscalls>>

\* apply: no line is left, apply and main return.
ApplyDone ==
    /\ pc = "rows"
    /\ ~ReadLine(stdin).some
    /\ pc' = "exit"
    /\ status' = "success"
    /\ UNCHANGED <<files, cmd, second, walk, trav, stdin, input, content, stdout, stderr,
                   handle, frame, faults, snap, base, prior, gets, setCalls, oscalls>>

\* apply that skips a line it cannot parse and goes on with the next.
ApplyRowSkipsBad ==
    /\ pc = "rows"
    /\ LET l == ReadLine(stdin)
           row == SplitOnce(l.line, TAB)
           parsed == V0FromStr(row.after)
       IN  /\ l.some
           /\ stdin' = l.rest
           /\ IF row.ok /\ parsed.some
              THEN /\ setCalls' = Append(setCalls, [path |-> encode_wide(row.before),
                                                    ts |-> parsed.ts])
                   /\ frame' = [NoFrame EXCEPT !.path = encode_wide(row.before),
                                               !.mode = "Write",
                                               !.fi = V0set(parsed.ts)]
                   /\ pc' = "open"
              ELSE UNCHANGED <<pc, setCalls, frame>>
    /\ UNCHANGED <<files, cmd, second, walk, trav, input, content, stdout, stderr, status, handle,
                   faults, snap, base, prior, gets, oscalls>>

\* apply: the next line is split at its first tab and parsed, and
\* V0Timestamps::set is called with the result.
ApplyRow ==
    /\ pc = "rows"
    /\ LET l == ReadLine(stdin)
           row == SplitOnce(l.line, TAB)
           parsed == V0FromStr(row.after)
       IN  /\ l.some
           /\ stdin' = l.rest
           /\ IF row.ok /\ parsed.some
              THEN /\ setCalls' = Append(setCalls, [path |-> encode_wide(row.before),
                                                    ts |-> parsed.ts])
                   /\ frame' = [NoFrame EXCEPT !.path = encode_wide(row.before),
                                               !.mode = "Write",
                                               !.fi = V0set(parsed.ts)]
                   /\ pc' = "open"
                   /\ UNCHANGED status
              ELSE Abort /\ UNCHANGED <<setCalls, frame>>
    /\ UNCHANGED <<files, cmd, second, walk, trav, input, content, stdout, stderr, handle,
                   faults, snap, base, prior, gets, oscalls>>

Next ==
    \/ MainDump
    \/ DumpHeader
    \/ DumpDone
    \/ DumpWalkError
    \/ DumpEntry
    \/ MainApply
    \/ ApplyAnyPrefix
    \/ ApplyAnyVersion
    \/ ApplyHeader
    \/ ApplyDone
    \/ ApplyRow
    \/ Open
    \/ Suppress
    \/ Query
    \/ SetInfo
    \/ GetClose
    \/ SetClose

Spec == Init /\ [][Next]_vars

\* The dump command alone.  The program is sequential and every Win32 call
\* returns, so a dump that has been started goes on taking its steps.
DumpSteps ==
    \/ DumpHeader
    \/ DumpDone
    \/ DumpWalkError
    \/ DumpEntry
    \/ Open
    \/ Suppress
    \/ Query
    \/ GetClose

DumpNext == MainDump \/ DumpSteps

DumpSpec == Init /\ [][DumpNext]_vars /\ WF_vars(DumpSteps)

\* ------------------------------------------------------------------------
\* One row, from get to set
\* ------------------------------------------------------------------------
\* Fields of a hand-written row, at most.
MaxFields == 5

\* The times a file can have, the ends of the i64 range among them.
CodecTimes == {I64Min, I64Of(-1), I64Of(0), I64Of(7), Ticks2022, I64Max}

CodecInfos ==
    {[CreationTime |-> c, LastAccessTime |-> a, LastWriteTime |-> w, ChangeTime |-> g,
      FileAttributes |-> 32] : c \in CodecTimes, a \in CodecTimes, w \in CodecTimes, g \in CodecTimes}

\* A path without a tab, and one with a tab in it.
CodecPaths == {Root, <<"a", TAB, "5">>}

\* The text of the largest i64, and of the number after it.
I64MaxText ==
    <<"9", "2", "2", "3", "3", "7", "2", "0", "3", "6", "8", "5", "4", "7", "7", "5", "8", "0", "7">>

I64OverText ==
    <<"9", "2", "2", "3", "3", "7", "2", "0", "3", "6", "8", "5", "4", "7", "7", "5", "8", "0", "8">>

CodecFields == {<<"5">>, I64MaxText, I64OverText, <<"x">>}

\* The smallest i64, a sign with digits, an empty field, a space.
CodecOddFields == {<<"-">> \o I64OverText, <<"+", "5">>, <<"-", "0">>, <<>>, <<" ", "5">>}

RECURSIVE JoinFields(_)
JoinFields(fs) ==
    IF fs = <<>> THEN <<>> ELSE <<TAB>> \o Head(fs) \o JoinFields(Tail(fs))

\* Hand-written rows: a path, then any fields, each after a tab.
CodecLines ==
    {Root \o JoinFields(fs) : fs \in Lines(CodecFields, MaxFields)}
    \cup {Root \o JoinFields(<<f, <<"5">>, f, f>>) : f \in CodecOddFields}
    \cup {JoinFields(<<<<"5">>, <<"5">>, <<"5">>, <<"5">>>>)}

\* Either get has just queried a file (its handle is still open), or apply is
\* about to read a hand-written row.
CodecInit ==
    /\ walk = <<>>
    /\ stdout = <<>>
    /\ stderr = <<>>
    /\ status = "running"
    /\ faults = 0
    /\ second = FALSE
    /\ prior = <<>>
    /\ gets = <<>>
    /\ setCalls = <<>>
    /\ \/ /\ \E p \in CodecPaths, fi \in CodecInfos :
                /\ files = [q \in {p} |-> fi]
                /\ trav = <<WalkEntry(p)>>
                /\ handle = [open |-> TRUE, path |-> p, mode |-> "Read", keepAccess |-> TRUE,
                             access |-> Access("Read")]
                /\ frame = [NoFrame EXCEPT !.path = p, !.mode = "Read", !.suppressed = TRUE,
                                           !.valid = TRUE, !.ret = fi]
                /\ oscalls = <<[op |-> "CreateFileW", mode |-> "Read", path |-> p, ok |-> TRUE],
                               [op |-> "SetFileTime", mode |-> "Read", path |-> p, ok |-> TRUE],
                               [op |-> "GetFileInformationByHandleEx", mode |-> "Read",
                                path |-> p, ok |-> TRUE]>>
          /\ pc = "close"
          /\ cmd = "dump"
          /\ stdin = <<>>
          /\ input = <<>>
       \/ /\ \E line \in CodecLines :
                /\ stdin = line \o <<LF>>
                /\ input = line \o <<LF>>
          /\ files = [q \in {Root} |-> RootInfo]
          /\ pc = "rows"
          /\ cmd = "apply"
          /\ trav = <<>>
          /\ handle = NoHandle
          /\ frame = NoFrame
          /\ oscalls = <<>>
    /\ snap = files
    /\ base = files
    /\ content = ReadInput(input)

\* The row that dump has printed is the input of apply.
CodecPipe ==
    /\ pc = "walk"
    /\ cmd = "dump"
    /\ stdout # <<>>
    /\ stdin' = stdout
    /\ input' = stdout
    /\ content' = ReadInput(stdout)
    /\ cmd' = "apply"
    /\ pc' = "rows"
    /\ prior' = gets
    /\ gets' = <<>>
    /\ oscalls' = <<>>
    /\ UNCHANGED <<files, second, walk, trav, stdout, stderr, status, handle, frame, faults,
                   snap, base, setCalls>>

CodecNext == GetClose \/ CodecPipe \/ ApplyRow

CodecSpec == CodecInit /\ [][CodecNext]_vars

\* ------------------------------------------------------------------------
\* Properties
\* ------------------------------------------------------------------------
\* The four times of a FILE_BASIC_INFO.
Times(info) ==
    <<info.CreationTime, info.LastWriteTime, info.ChangeTime, info.LastAccessTime>>

DumpThenApplyDone == cmd = "apply" /\ second /\ pc = "exit"

\* C1 (as claimed, and already in the runs in which no Win32 call fails):
\* once apply has run on the output of a dump, every file that got a data
\* row has the four times it had when the dump started.
C1_RoundTrip ==
    (DumpThenApplyDone /\ faults = 0) =>
        \A i \in DOMAIN prior :
            prior[i].res.some =>
                Times(files[prior[i].path]) = Times(snap[prior[i].path])

\* C2 (as claimed): two successive get calls on a file, with no other access
\* to it in between, return the same accessed value.
C2_AccessNeutral ==
    (cmd = "dump" /\ second) =>
        \A i \in DOMAIN prior, j \in DOMAIN gets :
            (prior[i].path = gets[j].path /\ prior[i].res.some /\ gets[j].res.some)
                => prior[i].res.ts.accessed = gets[j].res.ts.accessed

\* C2 (amended): two successive get calls on a file in each of which the
\* SetFileTime call that protects the last access time succeeded, with no
\* other access to the file in between, return the same accessed value.
C2_AccessNeutralWhenSuppressed ==
    (cmd = "dump" /\ second) =>
        \A i \in DOMAIN prior, j \in DOMAIN gets :
            (/\ prior[i].path = gets[j].path
             /\ prior[i].res.some /\ gets[j].res.some
             /\ prior[i].suppressed /\ gets[j].suppressed)
                => prior[i].res.ts.accessed = gets[j].res.ts.accessed

C2_Witness ==
    /\ cmd = "dump" /\ second
    /\ \E i \in DOMAIN prior, j \in DOMAIN gets :
        /\ prior[i].path = gets[j].path
        /\ prior[i].res.some /\ gets[j].res.some
        /\ prior[i].suppressed /\ gets[j].suppressed

\* C3: set never changes the attribute bits of a file, whether it succeeds or
\* fails: every file has the attributes it had when the process started.
C3_AttributesKept ==
    \A p \in DOMAIN files : files[p].FileAttributes = base[p].FileAttributes

C3_Witness ==
    /\ cmd = "apply"
    /\ \E i \in DOMAIN oscalls :
        /\ oscalls[i].op = "SetFileInformationByHandle"
        /\ oscalls[i].ok
        /\ Times(files[oscalls[i].path]) # Times(base[oscalls[i].path])
        /\ files[oscalls[i].path].FileAttributes # 0

\* --- apply ---------------------------------------------------------------
HasVersion == content.prefix /\ content.version.ok

HasHeaderLine == Len(content.lines) >= 2

WellFormedHead ==
    /\ HasVersion
    /\ content.version.val = I64Of(0)
    /\ HasHeaderLine
    /\ content.lines[2] = HeaderText

\* The index of the first row that does not parse; 0 if all rows parse.
FirstBadRow ==
    IF \A i \in DOMAIN content.rows : content.rows[i].ok THEN 0
    ELSE CHOOSE k \in DOMAIN content.rows :
            ~content.rows[k].ok /\ \A i \in 1..(k - 1) : content.rows[i].ok

SomeRowOk == \E i \in DOMAIN content.rows : content.rows[i].ok

\* The file system f after the successful SetFileInformationByHandle calls
\* among calls, the i-th handle having been opened for the i-th set call.
RECURSIVE AfterSets(_, _, _, _)
AfterSets(f, calls, sets, n) ==
    IF calls = <<>> THEN f
    ELSE LET c == Head(calls)
             k == IF c.op = "CreateFileW" THEN n + 1 ELSE n
         IN  IF c.op = "SetFileInformationByHandle" /\ c.ok
             THEN AfterSets([f EXCEPT ![c.path] = OsSetBasicInfo(@, V0set(sets[k].ts))],
                            Tail(calls), sets, k)
             ELSE AfterSets(f, Tail(calls), sets, k)

Count(seq, P(_)) == Cardinality({i \in DOMAIN seq : P(seq[i])})

IsPrefixOf(a, b) == Len(a) <= Len(b) /\ \A i \in DOMAIN a : a[i] = b[i]

\* C4: when the version line parses to an integer other than 0, apply calls
\* set for nothing, whatever follows; it logs one error and returns
\* normally.
C4_UnknownVersionNoOp ==
    (cmd = "apply" /\ HasVersion /\ content.version.val # I64Of(0)) =>
        /\ setCalls = <<>>
        /\ oscalls = <<>>
        /\ files = base
        /\ pc \in {"prefix", "version", "exit"}
        /\ status # "aborted"
        /\ pc = "exit" =>
            /\ status = "success"
            /\ Len(stderr) = 1
            /\ stderr[1].msg = "unknown version"

C4_Witness ==
    /\ cmd = "apply" /\ HasVersion /\ content.version.val # I64Of(0)
    /\ pc = "exit"
    /\ HasHeaderLine /\ content.lines[2] = HeaderText
    /\ SomeRowOk

\* C5: under version 0, when the second line of the input is not the column
\* header of version 0, apply aborts and set is never called, however many
\* well-formed rows follow.
C5_BadHeaderAborts ==
    (/\ cmd = "apply" /\ HasVersion /\ content.version.val = I64Of(0)
     /\ HasHeaderLine /\ content.lines[2] # HeaderText) =>
        /\ setCalls = <<>>
        /\ oscalls = <<>>
        /\ pc \in {"prefix", "version", "header", "exit"}
        /\ status # "success"
        /\ pc = "exit" => status = "aborted"

C5_Witness ==
    /\ cmd = "apply" /\ HasVersion /\ content.version.val = I64Of(0)
    /\ HasHeaderLine /\ content.lines[2] # HeaderText
    /\ pc = "exit"
    /\ SomeRowOk

\* C6: when row k is the first row that does not parse, set is called for
\* the rows 1..k-1, in order, and for no other row; what those calls did to
\* the files stays; the run ends aborted.
C6_FirstBadRowAborts ==
    (cmd = "apply" /\ WellFormedHead /\ FirstBadRow # 0) =>
        LET k == FirstBadRow
        IN  /\ Len(setCalls) <= k - 1
            /\ \A i \in DOMAIN setCalls : setCalls[i] = content.rows[i].call
            /\ status # "success"
            /\ files = AfterSets(base, oscalls, setCalls, 0)
            /\ pc = "exit" =>
                /\ status = "aborted"
                /\ Len(setCalls) = k - 1

C6_Witness ==
    /\ cmd = "apply" /\ WellFormedHead
    /\ FirstBadRow >= 2
    /\ pc = "exit"
    /\ files # base

\* C7: for a well-formed stream of n rows, set is called once per row, in
\* file order, whichever of the calls fail to open the file or to write the
\* times; a failing set is logged and changes nothing; the run ends in
\* success.
C7_SetFailuresDoNotStop ==
    (cmd = "apply" /\ WellFormedHead /\ FirstBadRow = 0) =>
        LET rows == content.rows
            FailedSet(c) == c.op \in {"CreateFileW", "SetFileInformationByHandle"} /\ ~c.ok
            FailureLog(m) == m.msg \in {"error opening", "error applying timestamps"}
        IN  /\ IsPrefixOf(setCalls, [i \in DOMAIN rows |-> rows[i].call])
            /\ status # "aborted"
            /\ files = AfterSets(base, oscalls, setCalls, 0)
            /\ pc # "close" => Count(stderr, FailureLog) = Count(oscalls, FailedSet)
            /\ pc = "exit" =>
                /\ status = "success"
                /\ Len(setCalls) = Len(rows)

C7_Witness ==
    /\ cmd = "apply" /\ WellFormedHead /\ FirstBadRow = 0
    /\ pc = "exit"
    /\ Len(setCalls) >= 2
    /\ \E i, j \in DOMAIN oscalls :
        /\ i < j
        /\ oscalls[i].op \in {"CreateFileW", "SetFileInformationByHandle"}
        /\ ~oscalls[i].ok
        /\ oscalls[j].op = "SetFileInformationByHandle"
        /\ oscalls[j].ok

\* --- the dump output, read as a whole ------------------------------------
\* The data rows of the output: its lines after the first two.
DataLines(text) == SubSeq(AllLines(text), 3, Len(AllLines(text)))

\* The text of a line before its first tab.
PathColumn(line) == SplitOnce(line, TAB).before

\* The entries of a traversal: its items that are not errors, in order.
Entries(w) == SelectSeq(w, LAMBDA item : ~item.err)

IsQueryOk(c) == c.op = "GetFileInformationByHandleEx" /\ c.ok

IsOpen(c) == c.op = "CreateFileW"

HasRecord(g) == g.res.some

TwoHeaderLines == PrefixText \o <<"0", LF>> \o HeaderText \o <<LF>>

\* A data row as the format describes it.
RowText(path, ts) ==
    path \o <<TAB>> \o FormatInt(ts.created) \o <<TAB>> \o FormatInt(ts.modified)
        \o <<TAB>> \o FormatInt(ts.changed) \o <<TAB>> \o FormatInt(ts.accessed) \o <<LF>>

RECURSIVE RowsText(_)
RowsText(gs) ==
    IF gs = <<>> THEN <<>>
    ELSE RowText(PathDisplay(Head(gs).path), Head(gs).res.ts) \o RowsText(Tail(gs))

\* C8: an entry whose open fails gives no line in the output of dump; dump
\* returns normally all the same, having tried every entry of the
\* traversal, and the data rows are those of the entries whose open and
\* query succeeded, in the order of the traversal.
C8_SkipOnOpenFailure ==
    cmd = "dump" =>
        LET queried == SelectSeq(oscalls, IsQueryOk)
            opens == SelectSeq(oscalls, IsOpen)
            rows == DataLines(stdout)
        IN  /\ status # "aborted"
            /\ pc = "exit" =>
                /\ status = "success"
                /\ Len(rows) = Len(queried)
                /\ \A i \in DOMAIN rows : PathColumn(rows[i]) = PathDisplay(queried[i].path)
                /\ Len(opens) = Len(Entries(trav))
                /\ \A i \in DOMAIN opens : opens[i].path = Entries(trav)[i].path

C8_Witness ==
    /\ cmd = "dump" /\ pc = "exit"
    /\ \E i, j, k \in DOMAIN oscalls :
        /\ i < j /\ j < k
        /\ IsQueryOk(oscalls[i])
        /\ IsOpen(oscalls[j]) /\ ~oscalls[j].ok
        /\ IsQueryOk(oscalls[k])

NothingBelowRoot == trav \in {<<WalkError>>, <<WalkEntry(Root)>>}

\* C9 (as claimed): the output of dump on a directory with no entries is
\* exactly the version line and the column header.
C9_EmptyTreeTwoLines ==
    (cmd = "dump" /\ pc = "exit" /\ NothingBelowRoot) => stdout = TwoHeaderLines

\* C9 (amended): the output of dump on a directory with no entries is the
\* version line and the column header, followed by one data row, the row of
\* the directory itself, when get succeeds on it, and by nothing otherwise.
C9_EmptyTreeRootRowOnly ==
    (cmd = "dump" /\ pc = "exit" /\ NothingBelowRoot) =>
        LET lines == AllLines(stdout)
            gotRoot == \E i \in DOMAIN oscalls : IsQueryOk(oscalls[i])
        IN  /\ IsPrefixOf(TwoHeaderLines, stdout)
            /\ Len(lines) = IF gotRoot THEN 3 ELSE 2
            /\ gotRoot => PathColumn(lines[3]) = Root

C9_Witness ==
    /\ cmd = "dump" /\ pc = "exit"
    /\ trav = <<WalkEntry(Root)>>
    /\ Len(AllLines(stdout)) = 3

\* C10: the output of dump is the version line, the column header, then one
\* row per traversal item for which get returned a record, in traversal
\* order, each row the path, a tab, and created, modified, changed, accessed
\* in decimal separated by tabs; traversal errors and entries without a
\* record give no line; both header lines are written before any entry is
\* opened.
C10_DumpOutputShape ==
    cmd = "dump" =>
        /\ pc = "dump" => (stdout = <<>> /\ oscalls = <<>>)
        /\ pc # "dump" =>
            /\ IsPrefixOf(TwoHeaderLines, stdout)
            /\ Len(gets) <= Len(Entries(trav))
            /\ \A i \in DOMAIN gets : gets[i].path = Entries(trav)[i].path
        /\ pc = "exit" =>
            /\ stdout = TwoHeaderLines \o RowsText(SelectSeq(gets, HasRecord))
            /\ Len(gets) = Len(Entries(trav))

C10_Witness ==
    /\ cmd = "dump" /\ pc = "exit"
    /\ Len(SelectSeq(gets, HasRecord)) >= 2
    /\ \/ \E i \in DOMAIN trav : trav[i].err
       \/ \E i \in DOMAIN gets : ~gets[i].res.some

\* --- apply, the first line -----------------------------------------------
IsUnknownVersionLog(m) == m.msg = "unknown version"

\* C11: when the input does not start with the literal "Version " (an input
\* shorter than that included), apply aborts: the version is never
\* interpreted (no line is read, no "unknown version" is logged, the run
\* never ends in success) and set is never called.
C11_PrefixMismatchAborts ==
    (cmd = "apply" /\ ~content.prefix) =>
        /\ pc \in {"prefix", "exit"}
        /\ setCalls = <<>>
        /\ oscalls = <<>>
        /\ files = base
        /\ Count(stderr, IsUnknownVersionLog) = 0
        /\ status # "success"
        /\ pc = "exit" => status = "aborted"

\* An input whose only fault is the prefix: in the place of the prefix it has
\* as many characters, then version 0, the header and a row that parses.
C11_Witness ==
    /\ cmd = "apply" /\ ~content.prefix
    /\ pc = "exit"
    /\ Len(input) > Len(PrefixText)
    /\ LET rest == ReadInput(PrefixText \o SubSeq(input, Len(PrefixText) + 1, Len(input)))
       IN  /\ rest.version.ok /\ rest.version.val = I64Of(0)
           /\ Len(rest.lines) >= 3 /\ rest.lines[2] = HeaderText
           /\ rest.rows[1].ok

\* --- handles --------------------------------------------------------------
IsClose(c) == c.op = "CloseHandle"

IsOpenOk(c) == c.op = "CreateFileW" /\ c.ok

\* The calls that take a handle and leave it open.
UsesHandle(c) ==
    c.op \in {"SetFileTime", "GetFileInformationByHandleEx", "SetFileInformationByHandle"}

IsInfoCall(c) == c.op \in {"GetFileInformationByHandleEx", "SetFileInformationByHandle"}

\* The index of the last CreateFileW among the first i - 1 calls; 0 if none.
LastOpen(calls, i) ==
    IF \E j \in 1..(i - 1) : IsOpen(calls[j])
    THEN CHOOSE j \in 1..(i - 1) :
            IsOpen(calls[j]) /\ \A k \in (j + 1)..(i - 1) : ~IsOpen(calls[k])
    ELSE 0

\* Is the handle of the last CreateFileW before call i still open at call i?
OpenAt(calls, i) ==
    LET j == LastOpen(calls, i)
    IN  /\ j # 0
        /\ calls[j].ok
        /\ \A k \in (j + 1)..(i - 1) : ~IsClose(calls[k])

\* C12: in get and set, a handle that CreateFileW returned is closed exactly
\* once, whether the info call succeeds or fails and whether SetFileTime
\* succeeds or fails; a failed CreateFileW is followed by no call on a handle
\* and no CloseHandle; no call is made on a handle that was closed.
C12_HandleReleasedOnce ==
    LET n == Len(oscalls)
    IN  /\ \A i \in 1..n :
            LET c == oscalls[i]
            IN  /\ (IsClose(c) \/ UsesHandle(c)) =>
                        (OpenAt(oscalls, i) /\ c.path = oscalls[LastOpen(oscalls, i)].path)
                /\ (IsOpen(c) /\ i > 1) =>
                        (IsClose(oscalls[i - 1]) \/ (IsOpen(oscalls[i - 1]) /\ ~oscalls[i - 1].ok))
                /\ (IsInfoCall(c) /\ i < n) => IsClose(oscalls[i + 1])
        /\ (pc \in {"walk", "rows", "exit"} /\ n > 0) =>
                (IsClose(oscalls[n]) \/ (IsOpen(oscalls[n]) /\ ~oscalls[n].ok))
        /\ handle.open <=> (n > 0 /\ OpenAt(oscalls, n + 1))
        /\ handle.open <=> pc \in {"suppress", "query", "setinfo", "close"}

\* A process has ended in which a handle was closed after a failed info call
\* or after a failed SetFileTime, and another after calls that all succeeded.
C12_Witness ==
    /\ pc = "exit"
    /\ \E i, j \in DOMAIN oscalls :
        /\ UsesHandle(oscalls[i]) /\ ~oscalls[i].ok
        /\ \E k \in {i + 1, i + 2} : k \in DOMAIN oscalls /\ IsClose(oscalls[k])
        /\ IsClose(oscalls[j])
        /\ j # i + 1 /\ j # i + 2
        /\ IsInfoCall(oscalls[j - 1]) /\ oscalls[j - 1].ok

\* The handles that are open after the calls: those CreateFileW returned and
\* CloseHandle has not been called on.
OpenHandles(calls) == Count(calls, IsOpenOk) - Count(calls, IsClose)

\* C13: at every point of a dump or apply run at most one handle is open;
\* none is open when dump takes the next item of the traversal, when apply
\* reads the next line, or when the run has ended, normally or by a panic on
\* a malformed header or row.
C13_AtMostOneHandle ==
    /\ OpenHandles(oscalls) \in {0, 1}
    /\ pc \in {"main", "dump", "walk", "prefix", "version", "header", "rows", "exit"}
            => OpenHandles(oscalls) = 0
    /\ pc \in {"suppress", "query", "setinfo", "close"} => OpenHandles(oscalls) = 1
    /\ (OpenHandles(oscalls) = 1) = handle.open

\* apply has aborted on a malformed row after set calls for the rows before
\* it, one of which failed on its open handle.
C13_Witness ==
    /\ cmd = "apply" /\ pc = "exit" /\ status = "aborted"
    /\ Len(setCalls) >= 1
    /\ Count(oscalls, IsOpenOk) >= 1
    /\ \E i \in DOMAIN oscalls : UsesHandle(oscalls[i]) /\ ~oscalls[i].ok

\* --- the SetFileTime call of win32_open_file ------------------------------
IsSuppressFailed(c) == c.op = "SetFileTime" /\ ~c.ok

IsSuppressLog(m) == m.msg = "error leaving access time unchanged"

\* C14: in get, after a successful open, SetFileTime is called on the handle
\* before the query; when SetFileTime fails, get logs one warning and still
\* queries the same handle, and it returns the queried record whenever the
\* query succeeds, whatever SetFileTime returned.
C14_BestEffortSuppression ==
    cmd = "dump" =>
        LET n == Len(oscalls)
        IN  /\ \A i \in 1..n :
                (IsOpenOk(oscalls[i]) /\ oscalls[i].mode = "Read") =>
                    LET k == Count(SubSeq(oscalls, 1, i), IsOpen)
                    IN  /\ i + 1 <= n =>
                            /\ oscalls[i + 1].op = "SetFileTime"
                            /\ oscalls[i + 1].path = oscalls[i].path
                        /\ i + 2 <= n =>
                            /\ oscalls[i + 2].op = "GetFileInformationByHandleEx"
                            /\ oscalls[i + 2].path = oscalls[i].path
                        /\ (i + 2 <= n /\ k <= Len(gets)) =>
                            /\ gets[k].path = oscalls[i].path
                            /\ gets[k].res.some = oscalls[i + 2].ok
                            /\ gets[k].suppressed = oscalls[i + 1].ok
            /\ Count(stderr, IsSuppressLog) = Count(oscalls, IsSuppressFailed)

\* dump has ended, and one of its get calls returned a record from a handle
\* on which SetFileTime had failed.
C14_Witness ==
    /\ cmd = "dump" /\ pc = "exit"
    /\ \E k \in DOMAIN gets : gets[k].opened /\ ~gets[k].suppressed /\ gets[k].res.some

\* --- termination of dump --------------------------------------------------
IsWalkLog(m) == m.msg = "walk error"

IsErr(item) == item.err

\* dump has returned normally, having logged every error of the traversal
\* and called get once for every entry of it, in order.
DumpFinished ==
    /\ cmd = "dump" /\ pc = "exit" /\ status = "success"
    /\ walk = <<>>
    /\ Count(stderr, IsWalkLog) = Count(trav, IsErr)
    /\ Len(gets) = Len(Entries(trav))
    /\ \A i \in DOMAIN gets : gets[i].path = Entries(trav)[i].path
    /\ Count(oscalls, IsOpen) = Len(Entries(trav))

\* C15: a dump that has been started returns normally, after it has visited
\* every item of the traversal exactly once, whichever items are errors and
\* whichever opens and queries fail.
C15_DumpCompletes == (cmd = "dump") ~> DumpFinished

\* A dump has returned whose traversal held an error and whose first get
\* failed, both before an entry that got its record.
C15_Witness ==
    /\ DumpFinished
    /\ \E i, j \in DOMAIN trav : i < j /\ trav[i].err /\ ~trav[j].err
    /\ Len(gets) >= 2
    /\ ~gets[1].res.some
    /\ gets[Len(gets)].res.some

\* --- one row, from get to set ---------------------------------------------
HasTab(text) == \E i \in DOMAIN text : text[i] = TAB

\* The file that get was called on, before the row was decoded.
Captured == snap[trav[1].path]

\* The record of get in terms of the file's FILE_BASIC_INFO, field by field.
RecordOf(info) ==
    [created |-> info.CreationTime, modified |-> info.LastWriteTime,
     changed |-> info.ChangeTime, accessed |-> info.LastAccessTime]

\* C16: the record that get returns maps creation, last-write, change and
\* last-access time to created, modified, changed and accessed; its row is
\* those four values in decimal in that order; decoding the row gives the
\* same four values under the same names, for every i64 value, the extremes
\* included; and set hands each of them to the time it was taken from.
C16_RowCodecRoundTrip ==
    trav # <<>> =>
        /\ (pc = "walk") =>
            /\ gets[1].res.ts = RecordOf(Captured)
            /\ stdout = RowText(PathDisplay(trav[1].path), RecordOf(Captured))
        /\ (pc \in {"open", "exit"} /\ ~HasTab(trav[1].path)) =>
            /\ pc = "open"
            /\ Len(setCalls) = 1
            /\ setCalls[1].ts = prior[1].res.ts
            /\ setCalls[1].ts = RecordOf(Captured)
            /\ Times(frame.fi) = Times(Captured)

\* A row has gone from get to set whose four values are all different and
\* include the smallest and the largest i64.
C16_Witness ==
    /\ trav # <<>>
    /\ pc = "open"
    /\ Captured.CreationTime = I64Min
    /\ Captured.LastAccessTime = I64Max
    /\ Captured.LastWriteTime = I64Of(-1)
    /\ Captured.ChangeTime = Ticks2022
    /\ Len(setCalls) = 1

\* The fields of a line: the texts between its tabs.
RECURSIVE SplitAll(_)
SplitAll(line) ==
    IF ~HasTab(line) THEN <<line>>
    ELSE LET i == IndexOf(line, TAB)
         IN  <<SubSeq(line, 1, i - 1)>> \o SplitAll(SubSeq(line, i + 1, Len(line)))

\* C17: a data line is decoded to a set call exactly if it is a path
\* followed by four tab-separated fields that are all decimal i64 values;
\* the path is then the text before the first tab and the four values are
\* created, modified, changed, accessed in that order.  A line without a
\* tab, with fewer or more than four fields after the path, or with a field
\* that is no integer or out of range, is a parse failure (apply aborts, no
\* set call).  So the row of a path with a tab in it is never decoded to that
\* path.
C17_RowDecoding ==
    (pc \in {"open", "exit"}) =>
        LET fields == SplitAll(ReadLine(input).line)
            accepted == pc = "open"
        IN  /\ accepted <=>
                (Len(fields) = 5 /\ \A i \in 2..5 : ParseI64(fields[i]).ok)
            /\ ~accepted => (status = "aborted" /\ setCalls = <<>>)
            /\ accepted =>
                /\ status = "running"
                /\ setCalls = <<[path |-> fields[1],
                                 ts |-> [created |-> ParseI64(fields[2]).val,
                                         modified |-> ParseI64(fields[3]).val,
                                         changed |-> ParseI64(fields[4]).val,
                                         accessed |-> ParseI64(fields[5]).val]]>>
                /\ frame.path = fields[1]
            /\ (trav # <<>> /\ HasTab(trav[1].path)) =>
                \A i \in DOMAIN setCalls : setCalls[i].path # trav[1].path

\* apply has aborted on a hand-written line that has five integers after
\* the path.
C17_Witness ==
    /\ pc = "exit" /\ status = "aborted"
    /\ trav = <<>>
    /\ LET fields == SplitAll(ReadLine(input).line)
       IN  /\ Len(fields) = 6
           /\ \A i \in 2..6 : ParseI64(fields[i]).ok

\* C18: SetFileTime is called after every successful open, on the handles
\* that set opens with write-attributes access only as on those of get: a
\* set whose open succeeds calls CreateFileW, SetFileTime,
\* SetFileInformationByHandle and CloseHandle in that order on one path, and
\* a failed SetFileTime is logged and SetFileInformationByHandle is called
\* all the same.
C18_SuppressionOnEveryOpen ==
    LET n == Len(oscalls)
    IN  /\ \A i \in 1..n :
            IsOpenOk(oscalls[i]) =>
                /\ i + 1 <= n =>
                    /\ oscalls[i + 1].op = "SetFileTime"
                    /\ oscalls[i + 1].path = oscalls[i].path
                /\ (i + 2 <= n /\ oscalls[i].mode = "Write") =>
                    /\ oscalls[i + 2].op = "SetFileInformationByHandle"
                    /\ oscalls[i + 2].path = oscalls[i].path
                /\ i + 3 <= n =>
                    /\ oscalls[i + 3].op = "CloseHandle"
                    /\ oscalls[i + 3].path = oscalls[i].path
        /\ (handle.open /\ handle.mode = "Write") => handle.access = {"FILE_WRITE_ATTRIBUTES"}
        /\ (handle.open /\ handle.mode = "Read") =>
                handle.access = {"FILE_READ_ATTRIBUTES", "FILE_WRITE_ATTRIBUTES"}
        /\ cmd = "apply" => \A i \in 1..n : oscalls[i].mode = "Write"
        /\ Count(stderr, IsSuppressLog) = Count(oscalls, IsSuppressFailed)

\* apply has ended after a set whose SetFileTime failed and whose
\* SetFileInformationByHandle then changed the times of the file.
C18_Witness ==
    /\ cmd = "apply" /\ pc = "exit"
    /\ files # base
    /\ \E i \in DOMAIN oscalls :
        /\ IsSuppressFailed(oscalls[i]) /\ oscalls[i].mode = "Write"
        /\ i + 2 <= Len(oscalls)
        /\ oscalls[i + 1].op = "SetFileInformationByHandle" /\ oscalls[i + 1].ok
        /\ IsClose(oscalls[i + 2])

\* C19: when the text between the prefix and the end of the first line is no
\* i32 (it is empty, not a number, out of range, or the input ends with the
\* prefix), apply aborts without a set call and without the "unknown
\* version" message; that message, and the normal return that goes with it,
\* are for the texts that parse to an integer other than 0 and for no other.
C19_BadVersionTextAborts ==
    cmd = "apply" =>
        /\ (content.prefix /\ ~content.version.ok) =>
            /\ pc \in {"prefix", "version", "exit"}
            /\ setCalls = <<>>
            /\ oscalls = <<>>
            /\ files = base
            /\ Count(stderr, IsUnknownVersionLog) = 0
            /\ status # "success"
            /\ pc = "exit" => status = "aborted"
        /\ Count(stderr, IsUnknownVersionLog) > 0 =>
            /\ content.prefix
            /\ content.version.ok
            /\ content.version.val # I64Of(0)
            /\ status = "success"

\* apply has aborted on an input whose version is a number too large for an
\* i32, followed by the header of version 0 and a row that parses.
C19_Witness ==
    /\ cmd = "apply" /\ pc = "exit" /\ status = "aborted"
    /\ content.prefix /\ ~content.version.ok
    /\ HasHeaderLine /\ content.lines[2] = HeaderText
    /\ SomeRowOk
    /\ content.lines[1] # <<>>
    /\ \A i \in DOMAIN content.lines[1] : IsDigit(content.lines[1][i])

NoneCaptured == \A i \in DOMAIN prior : ~prior[i].res.some

\* C20: apply of a version-0 input that has the version line and the column
\* header and no data row returns normally without a set call, and the
\* output of a dump that captured no entry is such an input; apply of a
\* version-0 input that ends with its version line, with no header line,
\* aborts, again without a set call.
C20_ZeroRowsOkNoHeaderAborts ==
    cmd = "apply" =>
        /\ (WellFormedHead /\ content.rows = <<>>) =>
            /\ pc \in {"prefix", "version", "header", "rows", "exit"}
            /\ setCalls = <<>>
            /\ oscalls = <<>>
            /\ files = base
            /\ status # "aborted"
            /\ pc = "exit" => status = "success"
        /\ (second /\ NoneCaptured) => (WellFormedHead /\ content.rows = <<>>)
        /\ (HasVersion /\ content.version.val = I64Of(0) /\ ~HasHeaderLine) =>
            /\ pc \in {"prefix", "version", "header", "exit"}
            /\ setCalls = <<>>
            /\ oscalls = <<>>
            /\ status # "success"
            /\ pc = "exit" => status = "aborted"

\* apply has returned normally from the output of a dump whose traversal had
\* an entry and whose get calls all returned None.
C20_Witness ==
    /\ cmd = "apply" /\ second /\ pc = "exit" /\ status = "success"
    /\ prior # <<>> /\ NoneCaptured
    /\ content.rows = <<>>
    /\ setCalls = <<>>

====
